---- MODULE Spec2Model ----
(***************************************************************************)
(* A model of package jsonapi (Patrolavia/jsonapi): the structured Error   *)
(* type and its catalog, APIHandler.Handler (the dispatcher), the          *)
(* HTTPHandler.ServeHTTP adapter, Register, and the HandlerTest helpers.   *)
(*                                                                         *)
(* Go strings are modelled as sequences of tokens (a token is a run of     *)
(* characters that no conversion looks inside); concatenation is \o and    *)
(* the empty string is << >>.  The calls the package makes into net/http,  *)
(* net/http/httptest and encoding/json are modelled by their documented    *)
(* contracts (current Go releases), at the call sites named in the map.    *)
(***************************************************************************)
EXTENDS Integers, Sequences, FiniteSets, TLC

VARIABLES catalog, mux, last

vars == <<catalog, mux, last>>

----------------------------------------------------------------------------
(* Bounds of the model.                                                    *)

\* how many tokens of the request body one dec.Decode call of the business
\* handler consumes (the decoder reads its input in chunks)
ReadChunk == 1

\* how many entries one Register call may carry
MaxApis == 2

----------------------------------------------------------------------------
(* Status codes named by the source.                                       *)

StatusInternalServerError == 500

StatusOK == 200

----------------------------------------------------------------------------
(* Strings.                                                                *)

EmptyStr == << >>

\* strconv.Itoa
Itoa(n) == <<ToString(n)>>

----------------------------------------------------------------------------
(* type Error, Error.SetData, Error.Error and the catalog E301 .. E504.    *)

MkError(code, message, url) == [Code |-> code, Message |-> message, URL |-> url]

\* Variant of SetData with a pointer receiver: the receiver itself is
\* assigned.  SetDataIsPure tells the two apart.
SetData_PointerReceiver(h, data) ==
    LET r == IF h.Code >= 300 /\ h.Code < 400
             THEN [h EXCEPT !.URL = data]
             ELSE [h EXCEPT !.Message = data]
    IN  [ret |-> r, recv |-> r]

\* func (h Error) SetData(data string) Error: the receiver is a copy, so the
\* call yields the value returned and leaves the receiver's storage as it was.
SetData(h, data) ==
    IF h.Code >= 300 /\ h.Code < 400
    THEN [ret |-> [h EXCEPT !.URL = data], recv |-> h]
    ELSE [ret |-> [h EXCEPT !.Message = data], recv |-> h]

\* Variant of Error.Error that drops the code when a message is present.
Error_Error_MessageOnly(h) ==
    IF h.Message # EmptyStr THEN h.Message ELSE Itoa(h.Code)

\* func (h Error) Error() string
Error_Error(h) ==
    Itoa(h.Code) \o (IF h.Message # EmptyStr THEN <<": ">> \o h.Message ELSE EmptyStr)

CatalogNames == {"E301", "E302", "E307", "E400", "E401", "E403", "E404", "E418", "E504"}

Catalog ==
    [n \in CatalogNames |->
        CASE n = "E301" -> MkError(301, <<"Resource has been moved permanently">>, EmptyStr)
          [] n = "E302" -> MkError(302, <<"Resource has bee found at another location">>, EmptyStr)
          [] n = "E307" -> MkError(307, <<"Resource has been moved to another location temporarily">>, EmptyStr)
          [] n = "E400" -> MkError(400, <<"Error parsing request">>, EmptyStr)
          [] n = "E401" -> MkError(401, <<"You have to be authorized before accessing this resource">>, EmptyStr)
          [] n = "E403" -> MkError(403, <<"You have no right to access this resource">>, EmptyStr)
          [] n = "E404" -> MkError(404, <<"Resource not found">>, EmptyStr)
          [] n = "E418" -> MkError(418, <<"I'm a teapot">>, EmptyStr)
          [] n = "E504" -> MkError(504, <<"Service unavailable">>, EmptyStr)]

----------------------------------------------------------------------------
(* encoding/json as the package uses it: results and string forms are      *)
(* marshalled by json.Encoder.Encode (api_handler.go) and json.Marshal     *)
(* (main.go).                                                              *)

\* Go values handed to the encoder.  "chan" stands for a value json cannot
\* marshal (a channel, a function, a cyclic structure).
JVal(t, s, n, b, k) == [t |-> t, s |-> s, n |-> n, b |-> b, k |-> k]

JNull == JVal("null", EmptyStr, 0, FALSE, "")

JStr(s) == JVal("str", s, 0, FALSE, "")

JNum(n) == JVal("num", EmptyStr, n, FALSE, "")

JBool(b) == JVal("bool", EmptyStr, 0, b, "")

\* a struct with one string field, such as HelloReply{Message: s}
JObj(k, s) == JVal("obj", s, 0, FALSE, k)

JChan == JVal("chan", EmptyStr, 0, FALSE, "")

\* the escapes json applies inside a string (Encoder escapes HTML by default)
EscapeToken(t) ==
    CASE t = "\"" -> "\\\""
      [] t = "\\" -> "\\\\"
      [] t = "\n" -> "\\n"
      [] t = "<"  -> "\\u003c"
      [] t = ">"  -> "\\u003e"
      [] t = "&"  -> "\\u0026"
      [] OTHER    -> t

RECURSIVE EscapeString(_)
EscapeString(s) ==
    IF s = << >> THEN << >> ELSE <<EscapeToken(Head(s))>> \o EscapeString(Tail(s))

Quote(s) == <<"\"">> \o EscapeString(s) \o <<"\"">>

\* json.Marshal: the bytes, or an error and no bytes
Marshal(v) ==
    CASE v.t = "null" -> [ok |-> TRUE, out |-> <<"null">>]
      [] v.t = "str"  -> [ok |-> TRUE, out |-> Quote(v.s)]
      [] v.t = "num"  -> [ok |-> TRUE, out |-> Itoa(v.n)]
      [] v.t = "bool" -> [ok |-> TRUE, out |-> IF v.b THEN <<"true">> ELSE <<"false">>]
      [] v.t = "obj"  -> [ok |-> TRUE, out |-> <<"{", "\"", v.k, "\"", ":">> \o Quote(v.s) \o <<"}">>]
      [] OTHER        -> [ok |-> FALSE, out |-> EmptyStr]

\* what Encoder.Encode writes for an encodable value: the bytes and a newline
Encoding(v) == Marshal(v).out \o <<"\n">>

----------------------------------------------------------------------------
(* One request: the *http.Request, the http.ResponseWriter and the two     *)
(* json streams that ServeHTTP builds, threaded through the calls as one   *)
(* record.  Once panicked is set the remaining calls of the goroutine do   *)
(* not run.                                                                *)

\* kind: "recorder" (httptest.ResponseRecorder) or "server" (net/http's writer)
\* bodyNil/unread: r.Body, and the tokens of it not yet read
\* ct, location: the values of the Content-Type and Location response headers
\* wroteHeader, code: whether the final status line is committed, and its code
\* lines: every status line emitted, informational ones included
\* body: the response body written so far
\* calls: in order, the calls made on the writer ("Content-Type" and
\*   "Location" header changes, "WriteHeader", "Write") and the call of the
\*   business handler ("h")
\* info: how many of the lines are informational (1xx) ones
\* encErr: the Encoder's sticky error; err: the error of the last Encode/Write
\* invoked: how many times the business handler ran; hret: it returned
\* drainRan: ReadAll ran; cat: the catalog variables as the request leaves them
NewCtx(kind, method, path, cookie, bodyNil, data, cat) ==
    [kind |-> kind, method |-> method, path |-> path, cookie |-> cookie,
     bodyNil |-> bodyNil, unread |-> data,
     ct |-> << >>, location |-> << >>,
     wroteHeader |-> FALSE, code |-> IF kind = "recorder" THEN StatusOK ELSE 0,
     lines |-> << >>, info |-> 0, body |-> EmptyStr, calls |-> << >>,
     encErr |-> FALSE, err |-> FALSE,
     invoked |-> 0, hret |-> FALSE, drainRan |-> FALSE, panicked |-> FALSE, cat |-> cat]

\* w.Header().Add(key, value)
Header_Add(x, value) ==
    IF x.panicked THEN x
    ELSE [x EXCEPT !.ct = Append(@, value), !.calls = Append(@, "Content-Type")]

\* the status line is committed: by WriteHeader, or by the first Write
Commit(x, code) ==
    [x EXCEPT !.wroteHeader = TRUE, !.code = code, !.lines = Append(@, code)]

\* ResponseWriter.WriteHeader(code): ignored once the header is written;
\* panics on a code that is no three-digit status; on the server a 1xx code
\* other than 101 is sent as an informational header and is not final.
WriteHeader(x, code) ==
    IF x.panicked THEN x
    ELSE LET x1 == [x EXCEPT !.calls = Append(@, "WriteHeader")]
         IN  IF x1.wroteHeader THEN x1
             ELSE IF code < 100 \/ code > 999 THEN [x1 EXCEPT !.panicked = TRUE]
             ELSE IF x1.kind = "server" /\ code >= 100 /\ code <= 199 /\ code # 101
                  THEN [x1 EXCEPT !.lines = Append(@, code), !.info = @ + 1]
             ELSE Commit(x1, code)

\* bodyAllowedForStatus of net/http
BodyAllowed(code) == ~(code >= 100 /\ code <= 199) /\ code # 204 /\ code # 304

\* ResponseWriter.Write(data): the first Write commits status 200 when none
\* is committed; the server refuses a body its status does not permit
\* (ErrBodyNotAllowed), the recorder stores every byte.
Write(x, data) ==
    IF x.panicked THEN x
    ELSE LET x1 == [x EXCEPT !.calls = Append(@, "Write")]
             x2 == IF x1.wroteHeader THEN x1 ELSE Commit(x1, StatusOK)
         IN  IF data = EmptyStr THEN [x2 EXCEPT !.err = FALSE]
             ELSE IF x2.kind = "server" /\ ~BodyAllowed(x2.code)
                  THEN [x2 EXCEPT !.err = TRUE]
             ELSE [x2 EXCEPT !.body = @ \o data, !.err = FALSE]

\* (*json.Encoder).Encode(v): a sticky earlier error is returned at once; a
\* value that cannot be marshalled is an error and nothing is written; else
\* the encoding and a newline go to the writer in one Write.
Encode(x, v) ==
    IF x.panicked THEN x
    ELSE IF x.encErr THEN [x EXCEPT !.err = TRUE]
    ELSE IF ~Marshal(v).ok THEN [x EXCEPT !.err = TRUE]
    ELSE LET x1 == Write(x, Encoding(v))
         IN  [x1 EXCEPT !.encErr = x1.err]

----------------------------------------------------------------------------
(* http.Redirect, called at api_handler.go:92.  A URL is a string whose    *)
(* tokens are a scheme-and-host prefix, "/" separators, "?" opening the    *)
(* query, and path segments (one token each).                              *)

SchemeHost == {"http://example.com"}

\* url.Parse rejects an invalid percent-escape
ParseFails(u) == \E i \in 1..Len(u) : u[i] = "%zz"

\* u.Scheme == "" && u.Host == ""
IsRelative(u) == u = << >> \/ Head(u) \notin SchemeHost

\* strings.Index: the first position of token t in s, 0 when absent
Index(s, t) ==
    IF \E i \in 1..Len(s) : s[i] = t
    THEN CHOOSE i \in 1..Len(s) : s[i] = t /\ \A j \in 1..(i - 1) : s[j] # t
    ELSE 0

\* strings.LastIndex
LastIndex(s, t) ==
    IF \E i \in 1..Len(s) : s[i] = t
    THEN CHOOSE i \in 1..Len(s) : s[i] = t /\ \A j \in (i + 1)..Len(s) : s[j] # t
    ELSE 0

\* the directory part of path.Split: through the last "/"
SplitDir(p) == SubSeq(p, 1, LastIndex(p, "/"))

HasSuffixSlash(p) == p # << >> /\ p[Len(p)] = "/"

RECURSIVE CleanSegs(_, _, _)
CleanSegs(p, stack, rooted) ==
    IF p = << >> THEN stack
    ELSE LET t == Head(p)
         IN  CASE t = "/" \/ t = "." -> CleanSegs(Tail(p), stack, rooted)
               [] t = ".." ->
                    IF stack # << >> /\ stack[Len(stack)] # ".."
                    THEN CleanSegs(Tail(p), SubSeq(stack, 1, Len(stack) - 1), rooted)
                    ELSE IF rooted THEN CleanSegs(Tail(p), stack, rooted)
                    ELSE CleanSegs(Tail(p), Append(stack, t), rooted)
               [] OTHER -> CleanSegs(Tail(p), Append(stack, t), rooted)

RECURSIVE JoinSegs(_)
JoinSegs(segs) ==
    IF segs = << >> THEN << >>
    ELSE IF Len(segs) = 1 THEN segs
    ELSE <<Head(segs), "/">> \o JoinSegs(Tail(segs))

\* path.Clean
Clean(p) ==
    LET rooted == p # << >> /\ Head(p) = "/"
        segs == CleanSegs(p, << >>, rooted)
    IN  IF rooted THEN <<"/">> \o JoinSegs(segs)
        ELSE IF segs = << >> THEN <<".">>
        ELSE JoinSegs(segs)

\* hexEscapeNonASCII
HexToken(t) == IF t = "[U+00E9]" THEN "%C3%A9" ELSE t

RECURSIVE HexEscapeNonASCII(_)
HexEscapeNonASCII(s) ==
    IF s = << >> THEN << >> ELSE <<HexToken(Head(s))>> \o HexEscapeNonASCII(Tail(s))

\* the Location that Redirect computes from url and the request path: a
\* relative url is joined to the directory of the request path and cleaned,
\* keeping a trailing slash and the query
RedirectTarget(oldpath, url) ==
    IF ParseFails(url) \/ ~IsRelative(url) THEN url
    ELSE LET old == IF oldpath = << >> THEN <<"/">> ELSE oldpath
             abs == IF url = << >> \/ Head(url) # "/" THEN SplitDir(old) \o url ELSE url
             q   == Index(abs, "?")
             pth == IF q = 0 THEN abs ELSE SubSeq(abs, 1, q - 1)
             qry == IF q = 0 THEN << >> ELSE SubSeq(abs, q, Len(abs))
             cln == Clean(pth)
         IN  (IF HasSuffixSlash(pth) /\ ~HasSuffixSlash(cln) THEN cln \o <<"/">> ELSE cln)
             \o qry

\* the note Redirect writes for a GET when no Content-Type is set
RedirectNote(url, code) ==
    <<"<a href=\"">> \o EscapeString(url) \o <<"\">", ToString(code), "</a>.\n", "\n">>

\* http.Redirect(w, r, url, code)
Redirect(x, url, code) ==
    IF x.panicked THEN x
    ELSE LET hadCT == x.ct # << >>
             loc   == HexEscapeNonASCII(RedirectTarget(x.path, url))
             x1 == [x EXCEPT !.location = <<loc>>, !.calls = Append(@, "Location")]
             x2 == IF ~hadCT /\ x.method \in {"GET", "HEAD"}
                   THEN [x1 EXCEPT !.ct = <<"text/html; charset=utf-8">>,
                                   !.calls = Append(@, "Content-Type")]
                   ELSE x1
             x3 == WriteHeader(x2, code)
         IN  IF ~hadCT /\ x.method = "GET" THEN Write(x3, RedirectNote(loc, code)) ELSE x3

----------------------------------------------------------------------------
(* The business handler (an APIHandler value): caller-supplied code,       *)
(* described by what it does with the decoder and what it returns.         *)

\* error values: kind "Error" is a value of type Error, "PtrError" a *Error,
\* "plain" any other error (errors.New(msg)), "nil" no error
ErrVal(kind, e, msg) == [kind |-> kind, e |-> e, msg |-> msg]

NoError == ErrVal("nil", MkError(0, EmptyStr, EmptyStr), EmptyStr)

\* t: "ok" returns (res, nil); "err" returns (nil, err); "setdata" returns
\* (nil, <catalog entry name>.SetData(data)); "panic" does not return
Outcome(t, res, err, name, data) ==
    [t |-> t, res |-> res, err |-> err, name |-> name, data |-> data]

\* err.Error() of a non-nil error
ErrorText(err) ==
    IF err.kind = "plain" THEN err.msg ELSE Error_Error(err.e)

\* the error the business handler returns when the catalog is cat
ReturnedErr(cat, beh) ==
    CASE beh.out.t = "err"     -> beh.out.err
      [] beh.out.t = "setdata" ->
            ErrVal("Error", SetData(cat[beh.out.name], beh.out.data).ret, EmptyStr)
      [] OTHER                 -> NoError

\* res, err := h(dec, httpData): the handler runs once; dec.Decode reads from
\* r.Body (a nil Body panics); a SetData call acts on the catalog entry
CallBusiness(x, beh) ==
    IF x.panicked THEN x
    ELSE LET x1 == [x EXCEPT !.invoked = @ + 1, !.calls = Append(@, "h")]
             x2 == IF ~beh.decode THEN x1
                   ELSE IF x1.bodyNil THEN [x1 EXCEPT !.panicked = TRUE]
                   ELSE [x1 EXCEPT !.unread =
                            SubSeq(@, ReadChunk + 1, Len(@))]
         IN  IF x2.panicked THEN x2
             ELSE IF beh.out.t = "panic" THEN [x2 EXCEPT !.panicked = TRUE]
             ELSE IF beh.out.t = "setdata"
                  THEN [x2 EXCEPT !.hret = TRUE,
                                  !.cat[beh.out.name] =
                                      SetData(x.cat[beh.out.name], beh.out.data).recv]
             ELSE [x2 EXCEPT !.hret = TRUE]

FallbackMessage ==
    <<"Cannot encode response into JSON format, please contact the administrator.">>

----------------------------------------------------------------------------
(* func (h APIHandler) Handler(enc, dec, httpData)                         *)

\* Variant of WriteResult with the test of the Encode error inverted.
WriteResult_FallbackInverted(x, res) ==
    LET x1 == Encode(x, res)
    IN  IF ~x1.err
        THEN Encode(WriteHeader(x1, StatusInternalServerError), JStr(FallbackMessage))
        ELSE x1

\* Variant of WriteResult that writes the fallback message without the status.
WriteResult_FallbackNoStatus(x, res) ==
    LET x1 == Encode(x, res)
    IN  IF x1.err THEN Encode(x1, JStr(FallbackMessage)) ELSE x1

\* lines 79-85: the result is encoded; when that fails, status 500 and the
\* fallback message
WriteResult(x, res) ==
    LET x1 == Encode(x, res)
    IN  IF x1.err
        THEN Encode(WriteHeader(x1, StatusInternalServerError), JStr(FallbackMessage))
        ELSE x1

\* Variant of WriteError without the redirect branch.
WriteError_NoRedirect(x, err) ==
    LET ok   == err.kind = "Error"
        code == IF ok THEN err.e.Code ELSE StatusInternalServerError
    IN  Encode(WriteHeader(x, code), JStr(ErrorText(err)))

\* Variant of WriteError whose type test also accepts a *Error.
WriteError_PtrAssert(x, err) ==
    LET ok   == err.kind \in {"Error", "PtrError"}
        code == IF ok THEN err.e.Code ELSE StatusInternalServerError
    IN  IF ok /\ code >= 300 /\ code < 400 /\ err.e.URL # EmptyStr
        THEN Encode(Redirect(x, err.e.URL, code), JStr(ErrorText(err)))
        ELSE Encode(WriteHeader(x, code), JStr(ErrorText(err)))

\* Variant of WriteError that encodes the body before it writes the status.
WriteError_EncodeFirst(x, err) ==
    LET ok   == err.kind = "Error"
        code == IF ok THEN err.e.Code ELSE StatusInternalServerError
    IN  IF ok /\ code >= 300 /\ code < 400 /\ err.e.URL # EmptyStr
        THEN Redirect(Encode(x, JStr(ErrorText(err))), err.e.URL, code)
        ELSE WriteHeader(Encode(x, JStr(ErrorText(err))), code)

\* lines 87-99: the code is the Error's Code when err is a value of type
\* Error and 500 otherwise; a 3xx Error with a URL redirects; the string form
\* of err is encoded after the status
WriteError(x, err) ==
    LET ok   == err.kind = "Error"
        code == IF ok THEN err.e.Code ELSE StatusInternalServerError
    IN  IF ok /\ code >= 300 /\ code < 400 /\ err.e.URL # EmptyStr
        THEN Encode(Redirect(x, err.e.URL, code), JStr(ErrorText(err)))
        ELSE Encode(WriteHeader(x, code), JStr(ErrorText(err)))

Handler(x, beh) ==
    LET err == ReturnedErr(x.cat, beh)
        x1  == CallBusiness(x, beh)
    IN  IF x1.panicked THEN x1
        ELSE IF err.kind = "nil" THEN WriteResult(x1, beh.out.res)
        ELSE WriteError(x1, err)

----------------------------------------------------------------------------
(* func (f HTTPHandler) ServeHTTP(w, r), with f an APIHandler's Handler    *)

\* ioutil.ReadAll(r.Body): reads to the end; a nil Body panics
ReadAll(x) ==
    IF x.panicked THEN x
    ELSE IF x.bodyNil THEN [x EXCEPT !.panicked = TRUE]
    ELSE [x EXCEPT !.unread = EmptyStr, !.drainRan = TRUE]

\* Variant of ServeHTTP that adds the Content-Type after the handler ran.
ServeHTTP_CTAfter(x, beh) ==
    ReadAll(Header_Add(Handler(x, beh), "application/json"))

ServeHTTP(x, beh) ==
    ReadAll(Handler(Header_Add(x, "application/json"), beh))

----------------------------------------------------------------------------
(* type HandlerTest: Get, Post, PostJSON, PostForm                         *)

\* r.URL.Path of a parsed request URI
RequestPath(uri) ==
    LET p == IF uri # << >> /\ Head(uri) \in SchemeHost THEN Tail(uri) ELSE uri
        q == Index(p, "?")
    IN  IF q = 0 THEN p ELSE SubSeq(p, 1, q - 1)

\* if cookie != "" { req.Header.Add("Cookie", cookie) }
CookieHeader(cookie) == IF cookie # EmptyStr THEN <<cookie>> ELSE << >>

\* what a helper hands back: rec, the recorder is non-nil; err, the error is
\* non-nil; returned is false when the call panicked instead of returning
Result(x, rec, err, returned) ==
    [x |-> x, rec |-> rec, err |-> err, returned |-> returned]

\* ret := httptest.NewRecorder(), before any request exists
FreshRecorder(method, cat) ==
    NewCtx("recorder", method, EmptyStr, << >>, TRUE, EmptyStr, cat)

Served(x) == Result(x, ~x.panicked, FALSE, ~x.panicked)

\* http.NewRequest("GET", uri, nil) leaves req.Body nil
HandlerTest_Get(uri, cookie, beh, cat) ==
    IF ParseFails(uri) THEN Result(FreshRecorder("GET", cat), FALSE, TRUE, TRUE)
    ELSE Served(ServeHTTP(NewCtx("recorder", "GET", RequestPath(uri),
                                 CookieHeader(cookie), TRUE, EmptyStr, cat), beh))

\* http.NewRequest("POST", uri, strings.NewReader(data))
HandlerTest_Post(uri, cookie, data, beh, cat) ==
    IF ParseFails(uri) THEN Result(FreshRecorder("POST", cat), FALSE, TRUE, TRUE)
    ELSE Served(ServeHTTP(NewCtx("recorder", "POST", RequestPath(uri),
                                 CookieHeader(cookie), FALSE, data, cat), beh))

HandlerTest_PostJSON(uri, cookie, data, beh, cat) ==
    IF ~Marshal(data).ok THEN Result(FreshRecorder("POST", cat), FALSE, TRUE, TRUE)
    ELSE HandlerTest_Post(uri, cookie, Marshal(data).out, beh, cat)

\* url.QueryEscape
QueryToken(t) == IF t = " " THEN "+" ELSE t

RECURSIVE QueryEscape(_)
QueryEscape(s) ==
    IF s = << >> THEN << >> ELSE <<QueryToken(Head(s))>> \o QueryEscape(Tail(s))

\* the keys of url.Values, in the sorted order Values.Encode walks them
FormKeys == <<"a", "b">>

RECURSIVE EncodeFrom(_, _, _)
EncodeFrom(form, i, first) ==
    IF i > Len(FormKeys) THEN << >>
    ELSE IF FormKeys[i] \notin DOMAIN form THEN EncodeFrom(form, i + 1, first)
    ELSE (IF first THEN << >> ELSE <<"&">>)
         \o <<FormKeys[i], "=">> \o QueryEscape(form[FormKeys[i]])
         \o EncodeFrom(form, i + 1, FALSE)

\* url.Values.Encode
Values_Encode(form) == EncodeFrom(form, 1, TRUE)

HandlerTest_PostForm(uri, cookie, form, beh, cat) ==
    HandlerTest_Post(uri, cookie, Values_Encode(form), beh, cat)

----------------------------------------------------------------------------
(* func Register(apis []API, mux *http.ServeMux)                           *)

\* (*ServeMux).Handle panics on an empty pattern and on a pattern that is
\* already registered; the entries before the panic stay registered
RECURSIVE RegisterFrom(_, _)
RegisterFrom(apis, m) ==
    IF apis = << >> THEN [pats |-> m, panicked |-> FALSE]
    ELSE IF Head(apis) = "" \/ Head(apis) \in m THEN [pats |-> m, panicked |-> TRUE]
    ELSE RegisterFrom(Tail(apis), m \cup {Head(apis)})

\* target "default" is the mux == nil case (http.Handle), "own" a given mux
Register(muxes, apis, target) ==
    LET r == RegisterFrom(apis, muxes[target])
    IN  [muxes |-> [muxes EXCEPT ![target] = r.pats], panicked |-> r.panicked]

----------------------------------------------------------------------------
(* The inputs the operations are exercised with.                           *)

URIs ==
    { <<"/", "api", "/", "hello">>,
      <<"http://example.com", "/", "v1", "/", "users", "/">>,
      <<"%zz">> }

Cookies == { EmptyStr, <<"sid=1">> }

PostData == { EmptyStr, <<"a=1">>, <<"{", "\"Name\"", ":", "\"John\"", "}">> }

JSONData == { JObj("Name", <<"John">>), JStr(<<"say ", "\"", "hi", "\"">>), JChan }

Forms ==
    { << >>,
      [k \in {"a"} |-> <<"1">>],
      [k \in {"a", "b"} |-> IF k = "a" THEN <<"x", " ", "y">> ELSE <<"2">>] }

Results ==
    { JNull, JBool(TRUE), JNum(7), JStr(EmptyStr),
      JStr(<<"Hello, ", "<", "Mr.", ">", " ", "\"", "John", "\"", "\\", "\n">>),
      JObj("Message", <<"Hello, Mr. John">>),
      JChan }

Codes == { 0, 150, 204, 302, 304, 404, 1000 }

Messages == { EmptyStr, <<"User not found">> }

RedirectURLs ==
    { <<"http://example.com", "/", "new">>,
      <<"new">>,
      <<"/", "a", "/", "..", "/", "b", "/">>,
      <<"/", "new", "?", "q=1">>,
      <<"http://example.com", "/", "[U+00E9]">> }

ErrorLiterals ==
    { MkError(c, m, u) : c \in Codes, m \in Messages,
                         u \in {EmptyStr, <<"http://example.com", "/", "new">>, <<"new">>} }

ErrVals ==
    { ErrVal("Error", e, EmptyStr) : e \in ErrorLiterals }
    \cup { ErrVal("PtrError", e, EmptyStr) : e \in {l \in ErrorLiterals : l.Code \in {302, 404}} }
    \cup { ErrVal("plain", MkError(0, EmptyStr, EmptyStr), m) :
              m \in {EmptyStr, <<"internal server error">>} }

SetDataInputs == RedirectURLs \cup Messages

\* the catalog entries the business handlers of the model return
HandlerEntries == { "E301", "E307", "E404", "E504" }

Outcomes ==
    { Outcome("ok", r, NoError, "", EmptyStr) : r \in Results }
    \cup { Outcome("err", JNull, e, "", EmptyStr) : e \in ErrVals }
    \cup { Outcome("setdata", JNull, NoError, n, d) : n \in HandlerEntries, d \in SetDataInputs }
    \cup { Outcome("panic", JNull, NoError, "", EmptyStr) }

Behaviours == { [decode |-> d, out |-> o] : d \in BOOLEAN, o \in Outcomes }

Patterns == { "/api/hello", "" }

PatternPath(p) == IF p = "/api/hello" THEN <<"/", "api", "/", "hello">> ELSE << >>

RECURSIVE SeqsUpTo(_, _)
SeqsUpTo(S, n) ==
    IF n = 0 THEN { << >> }
    ELSE LET shorter == SeqsUpTo(S, n - 1)
         IN  shorter \cup { Append(q, e) : q \in shorter, e \in S }

----------------------------------------------------------------------------
(* State: the catalog variables E301 .. E504, the patterns bound on the    *)
(* default mux and on a caller's mux, and the operation last performed     *)
(* with what it handed back (op "none": nothing is being observed).        *)

NoCtx == FreshRecorder("", Catalog)

Obs(op, in, res, e) ==
    [op |-> op, in |-> in, x |-> res.x, rec |-> res.rec, err |-> res.err,
     returned |-> res.returned, e |-> e]

NoObs == Obs("none", << >>, Result(NoCtx, FALSE, FALSE, TRUE), NoError)

Init ==
    /\ catalog = Catalog
    /\ mux = [t \in {"default", "own"} |-> {}]
    /\ last = NoObs

Idle == last.op = "none"

\* a call of SetData on a catalog entry, outside any request
SetDataCall ==
    /\ Idle
    /\ \E n \in CatalogNames, d \in SetDataInputs :
          LET sd == SetData(catalog[n], d)
          IN  /\ catalog' = [catalog EXCEPT ![n] = sd.recv]
              /\ last' = Obs("SetData", [name |-> n, data |-> d, recv |-> catalog[n]],
                             Result(NoCtx, FALSE, FALSE, TRUE), ErrVal("Error", sd.ret, EmptyStr))
    /\ UNCHANGED mux

Get ==
    /\ Idle
    /\ \E uri \in URIs, cookie \in Cookies, beh \in Behaviours :
          LET res == HandlerTest_Get(uri, cookie, beh, catalog)
          IN  /\ catalog' = res.x.cat
              /\ last' = Obs("Get", [uri |-> uri, cookie |-> cookie, beh |-> beh],
                             res, ReturnedErr(catalog, beh))
    /\ UNCHANGED mux

Post ==
    /\ Idle
    /\ \E uri \in URIs, cookie \in Cookies, data \in PostData, beh \in Behaviours :
          LET res == HandlerTest_Post(uri, cookie, data, beh, catalog)
          IN  /\ catalog' = res.x.cat
              /\ last' = Obs("Post", [uri |-> uri, cookie |-> cookie, beh |-> beh, data |-> data],
                             res, ReturnedErr(catalog, beh))
    /\ UNCHANGED mux

PostJSON ==
    /\ Idle
    /\ \E uri \in URIs, cookie \in Cookies, data \in JSONData, beh \in Behaviours :
          LET res == HandlerTest_PostJSON(uri, cookie, data, beh, catalog)
          IN  /\ catalog' = res.x.cat
              /\ last' = Obs("PostJSON", [uri |-> uri, cookie |-> cookie, beh |-> beh, data |-> data],
                             res, ReturnedErr(catalog, beh))
    /\ UNCHANGED mux

PostForm ==
    /\ Idle
    /\ \E uri \in URIs, cookie \in Cookies, form \in Forms, beh \in Behaviours :
          LET res == HandlerTest_PostForm(uri, cookie, form, beh, catalog)
          IN  /\ catalog' = res.x.cat
              /\ last' = Obs("PostForm", [uri |-> uri, cookie |-> cookie, beh |-> beh, data |-> form],
                             res, ReturnedErr(catalog, beh))
    /\ UNCHANGED mux

RegisterCall ==
    /\ Idle
    /\ \E apis \in SeqsUpTo(Patterns, MaxApis), target \in {"default", "own"} :
          LET r == Register(mux, apis, target)
          IN  /\ mux' = r.muxes
              /\ last' = Obs("Register", [apis |-> apis, target |-> target],
                             Result(NoCtx, FALSE, FALSE, ~r.panicked),
                             NoError)
    /\ UNCHANGED catalog

\* a request arrives at a mux for a registered pattern: the server calls the
\* adapter that Register bound, with its own writer and a non-nil Body
Serve ==
    /\ Idle
    /\ \E target \in {"default", "own"}, p \in Patterns, method \in {"GET", "POST"},
          cookie \in Cookies, data \in PostData, beh \in Behaviours :
          /\ p \in mux[target]
          /\ LET x == ServeHTTP(NewCtx("server", method, PatternPath(p),
                                       CookieHeader(cookie), FALSE, data, catalog), beh)
             IN  /\ catalog' = x.cat
                 /\ last' = Obs("Serve", [uri |-> PatternPath(p), cookie |-> cookie, beh |-> beh, data |-> data],
                                Result(x, FALSE, FALSE, ~x.panicked),
                                ReturnedErr(catalog, beh))
    /\ UNCHANGED mux

\* the observation is dropped; the next operation may start
Forget ==
    /\ ~Idle
    /\ last' = NoObs
    /\ UNCHANGED <<catalog, mux>>

Next ==
    \/ SetDataCall
    \/ Get
    \/ Post
    \/ PostJSON
    \/ PostForm
    \/ RegisterCall
    \/ Serve
    \/ Forget

Spec == Init /\ [][Next]_vars

----------------------------------------------------------------------------
(* Vocabulary of the properties.                                           *)

Resp == last.x

IsHelper == last.op \in {"Get", "Post", "PostJSON", "PostForm"}

IsRequest == IsHelper \/ last.op = "Serve"

\* the request was built, so ServeHTTP ran
Built ==
    /\ IsRequest
    /\ IsHelper => ~ParseFails(last.in.uri)
    /\ last.op = "PostJSON" => Marshal(last.in.data).ok

\* the business handler ran and returned (res, err)
HandlerReturned == IsRequest /\ Resp.hret

Returned == last.e

\* "<Code>" when Message is empty, "<Code>: <Message>" otherwise
StringForm(e) ==
    IF e.Message = EmptyStr THEN <<ToString(e.Code)>>
    ELSE <<ToString(e.Code), ": ">> \o e.Message

\* the JSON encoding of a string, as Encode writes it
JSONString(s) == <<"\"">> \o EscapeString(s) \o <<"\"", "\n">>

UnescapeToken(t) ==
    CASE t = "\\\""    -> "\""
      [] t = "\\\\"    -> "\\"
      [] t = "\\n"     -> "\n"
      [] t = "\\u003c" -> "<"
      [] t = "\\u003e" -> ">"
      [] t = "\\u0026" -> "&"
      [] OTHER         -> t

RECURSIVE Unescape(_)
Unescape(s) ==
    IF s = << >> THEN << >> ELSE <<UnescapeToken(Head(s))>> \o Unescape(Tail(s))

ParseInt(t) == CHOOSE n \in -1000..1000 : ToString(n) = t

\* decoding a response body back into a value
Decode(b) ==
    LET v == IF b # << >> /\ b[Len(b)] = "\n" THEN SubSeq(b, 1, Len(b) - 1) ELSE b
    IN  CASE v = << >>        -> JChan
          [] v = <<"null">>   -> JNull
          [] v = <<"true">>   -> JBool(TRUE)
          [] v = <<"false">>  -> JBool(FALSE)
          [] v # << >> /\ v[1] = "\"" -> JStr(Unescape(SubSeq(v, 2, Len(v) - 1)))
          [] v # << >> /\ v[1] = "{"  -> JObj(v[3], Unescape(SubSeq(v, 7, Len(v) - 2)))
          [] OTHER            -> JNum(ParseInt(v[1]))

IsRedirectError(ev) ==
    ev.kind = "Error" /\ ev.e.Code >= 300 /\ ev.e.Code < 400 /\ ev.e.URL # EmptyStr

\* an absolute URL of ASCII characters
AbsoluteASCII(u) ==
    u # << >> /\ Head(u) \in SchemeHost /\ \A i \in 1..Len(u) : u[i] # "[U+00E9]"

Count(calls, names) == Cardinality({i \in 1..Len(calls) : calls[i] \in names})

\* every header and status call precedes every body write
HeadersBeforeBody(calls) ==
    \A i, j \in 1..Len(calls) :
        calls[i] = "Write" /\ calls[j] \in {"Content-Type", "Location", "WriteHeader"}
            => j < i

----------------------------------------------------------------------------
(* C1, as stated: a structured Error with 300 <= Code < 400 and a URL gives *)
(* status Code, a Location header equal to URL, and the JSON encoding of    *)
(* Error() as the body.  A relative URL is rewritten by http.Redirect, so   *)
(* this does not hold.                                                      *)
RedirectLocationIsURL ==
    (HandlerReturned /\ IsRedirectError(Returned)) =>
        /\ Resp.wroteHeader /\ Resp.code = Returned.e.Code
        /\ Resp.location = <<Returned.e.URL>>
        /\ Resp.body = JSONString(StringForm(Returned.e))

(* C1, amended: the status is Code; the Location header is URL as           *)
(* http.Redirect normalises it (a relative URL is resolved against the      *)
(* directory of the request path and cleaned, non-ASCII bytes are           *)
(* percent-escaped; an absolute ASCII URL is kept as it is); the body is    *)
(* the JSON encoding of Error(), except that net/http's server accepts no   *)
(* body for status 304 and the body is then empty.                          *)
RedirectResponse ==
    (HandlerReturned /\ IsRedirectError(Returned)) =>
        /\ Resp.wroteHeader /\ Resp.code = Returned.e.Code
        /\ Resp.lines = <<Returned.e.Code>>
        /\ Resp.location = <<HexEscapeNonASCII(RedirectTarget(Resp.path, Returned.e.URL))>>
        /\ AbsoluteASCII(Returned.e.URL) => Resp.location = <<Returned.e.URL>>
        /\ Resp.body = IF Resp.kind = "server" /\ Returned.e.Code = 304
                       THEN EmptyStr
                       ELSE JSONString(StringForm(Returned.e))

RedirectWitness ==
    /\ last.op = "Post" /\ HandlerReturned
    /\ last.in.beh.out.t = "setdata" /\ last.in.beh.out.name = "E301"
    /\ Resp.code = 301
    /\ Resp.location = <<<<"http://example.com", "/", "new">>>>
    /\ Resp.body = <<"\"", "301", ": ", "Resource has been moved permanently", "\"", "\n">>

----------------------------------------------------------------------------
(* C2, as stated: a structured Error outside the redirect case gives status *)
(* exactly Code, for every integer Code, and the JSON encoding of Error()   *)
(* as the body.  WriteHeader rejects a Code that is no three-digit status,  *)
(* so this does not hold.                                                   *)
ErrorStatusIsCode ==
    (HandlerReturned /\ Returned.kind = "Error" /\ ~IsRedirectError(Returned)) =>
        /\ Resp.wroteHeader /\ Resp.code = Returned.e.Code
        /\ Resp.body = JSONString(StringForm(Returned.e))

(* C2, amended: for 200 <= Code <= 999 the status is exactly Code and the   *)
(* body is the JSON encoding of Error() ("<Code>" or "<Code>: <Message>"),  *)
(* except that net/http's server accepts no body for 204 and 304 and the    *)
(* body is then empty; for Code < 100 or Code > 999 WriteHeader panics and  *)
(* neither a status nor a body is written.                                  *)
ErrorResponse ==
    (HandlerReturned /\ Returned.kind = "Error" /\ ~IsRedirectError(Returned)) =>
        /\ (Returned.e.Code >= 200 /\ Returned.e.Code <= 999) =>
              /\ Resp.wroteHeader /\ Resp.code = Returned.e.Code
              /\ Resp.lines = <<Returned.e.Code>>
              /\ Resp.location = << >>
              /\ Resp.body = IF Resp.kind = "server" /\ Returned.e.Code \in {204, 304}
                             THEN EmptyStr
                             ELSE JSONString(StringForm(Returned.e))
        /\ (Returned.e.Code < 100 \/ Returned.e.Code > 999) =>
              Resp.panicked /\ ~Resp.wroteHeader /\ Resp.body = EmptyStr

ErrorWitness ==
    /\ last.op = "Serve" /\ HandlerReturned
    /\ Returned = ErrVal("Error", MkError(404, <<"User not found">>, EmptyStr), EmptyStr)
    /\ Resp.code = 404
    /\ Resp.body = <<"\"", "404", ": ", "User not found", "\"", "\n">>

----------------------------------------------------------------------------
(* C3: a non-nil error that is no value of type Error gives status 500, the *)
(* JSON encoding of its string form as the body, and no Location header.    *)
UnstructuredIs500 ==
    (HandlerReturned /\ Returned.kind \in {"PtrError", "plain"}) =>
        /\ Resp.wroteHeader /\ Resp.code = 500
        /\ Resp.lines = <<500>>
        /\ Resp.location = << >>
        /\ Count(Resp.calls, {"Location"}) = 0
        /\ Resp.body = JSONString(IF Returned.kind = "plain" THEN Returned.msg
                                  ELSE StringForm(Returned.e))

UnstructuredWitness ==
    /\ HandlerReturned /\ Returned.kind = "PtrError"
    /\ Returned.e.Code = 302 /\ Returned.e.URL # EmptyStr
    /\ Resp.code = 500 /\ Resp.location = << >>
    /\ Resp.body # EmptyStr

----------------------------------------------------------------------------
(* C4: an encodable result R returned as (R, nil) gives status 200 and a    *)
(* body that is the encoding of R and decodes back to R; no status call is  *)
(* made and the fallback message is not written.                            *)
ResultRoundTrip ==
    (HandlerReturned /\ last.in.beh.out.t = "ok" /\ Marshal(last.in.beh.out.res).ok) =>
        /\ Resp.wroteHeader /\ Resp.code = 200
        /\ Resp.lines = <<200>>
        /\ Resp.body = Encoding(last.in.beh.out.res)
        /\ Decode(Resp.body) = last.in.beh.out.res
        /\ Count(Resp.calls, {"WriteHeader"}) = 0
        /\ Count(Resp.calls, {"Write"}) = 1

ResultWitness ==
    /\ last.op = "PostJSON" /\ last.returned /\ last.rec /\ ~last.err
    /\ last.in.beh.out.t = "ok"
    /\ last.in.beh.out.res.t = "str" /\ Len(last.in.beh.out.res.s) > 3
    /\ Resp.code = 200
    /\ Resp.body # <<"\"">> \o last.in.beh.out.res.s \o <<"\"", "\n">>

----------------------------------------------------------------------------
(* C5: when (R, nil) is returned and encoding R fails, the status is 500    *)
(* and the body is the encoding of the fallback message; the failure does   *)
(* not leave the handler (ServeHTTP goes on to drain a non-nil Body).       *)
EncodeFailureFallback ==
    (HandlerReturned /\ last.in.beh.out.t = "ok" /\ ~Marshal(last.in.beh.out.res).ok) =>
        /\ Resp.wroteHeader /\ Resp.code = 500
        /\ Resp.lines = <<500>>
        /\ Resp.body = JSONString(FallbackMessage)
        /\ ~Resp.bodyNil => (~Resp.panicked /\ Resp.drainRan)
        /\ (IsHelper /\ last.op # "Get") => (last.returned /\ last.rec /\ ~last.err)

FallbackWitness ==
    /\ last.op = "Post" /\ HandlerReturned
    /\ last.in.beh.out.t = "ok" /\ last.in.beh.out.res = JChan
    /\ last.returned /\ Resp.code = 500
    /\ Resp.calls = <<"Content-Type", "h", "WriteHeader", "Write">>

----------------------------------------------------------------------------
(* C6, as stated: in every branch the header and status writes precede the  *)
(* body writes and at most one status line is written per request.  On      *)
(* net/http's server a 1xx Code is sent as an informational status line and *)
(* the body write then commits 200, so two lines are written.               *)
OneStatusLine ==
    IsRequest =>
        /\ HeadersBeforeBody(Resp.calls)
        /\ Len(Resp.lines) <= 1

(* C6, amended: in every branch the header and status calls precede the     *)
(* body writes, the handler makes at most one status call (WriteHeader, or  *)
(* the one inside Redirect), and at most one final status line is written;  *)
(* a 1xx Code other than 101 on net/http's server adds one informational    *)
(* line before it.                                                          *)
StatusBeforeBody ==
    IsRequest =>
        /\ HeadersBeforeBody(Resp.calls)
        /\ Count(Resp.calls, {"WriteHeader"}) <= 1
        /\ Len(Resp.lines) - Resp.info <= 1
        /\ Resp.info <= 1
        /\ Resp.info = 1 =>
              /\ Resp.kind = "server" /\ Returned.kind = "Error"
              /\ Returned.e.Code >= 100 /\ Returned.e.Code <= 199

StatusBeforeBodyWitness ==
    /\ HandlerReturned /\ IsRedirectError(Returned)
    /\ Resp.calls = <<"Content-Type", "h", "Location", "WriteHeader", "Write">>
    /\ Resp.lines = <<302>>

----------------------------------------------------------------------------
(* C7: ServeHTTP sets Content-Type to application/json exactly once, before *)
(* the handler runs and before any body write, and in every branch the      *)
(* response's Content-Type is application/json and nothing else.            *)
ContentTypeJSON ==
    Built =>
        /\ Resp.ct = <<"application/json">>
        /\ Resp.calls # << >> /\ Resp.calls[1] = "Content-Type"
        /\ Count(Resp.calls, {"Content-Type"}) = 1

ContentTypeWitness ==
    /\ last.op = "Serve" /\ Resp.method = "GET"
    /\ HandlerReturned /\ IsRedirectError(Returned)
    /\ Resp.ct = <<"application/json">>
    /\ Resp.body # EmptyStr

----------------------------------------------------------------------------
SetDataResult(name, data, r) ==
    LET p == Catalog[name]
    IN  /\ r.Code = p.Code
        /\ IF p.Code >= 300 /\ p.Code < 400
           THEN r.URL = data /\ r.Message = p.Message
           ELSE r.Message = data /\ r.URL = p.URL

(* C8: SetData never changes its receiver: the catalog entries keep their   *)
(* Code, Message and URL through every call, and each value returned has    *)
(* the entry's Code, with URL = data and the entry's Message when           *)
(* 300 <= Code < 400, and Message = data and the entry's URL otherwise.     *)
SetDataIsPure ==
    /\ catalog = Catalog
    /\ last.op = "SetData" =>
          /\ last.in.recv = Catalog[last.in.name]
          /\ SetDataResult(last.in.name, last.in.data, Returned.e)
    /\ (HandlerReturned /\ last.in.beh.out.t = "setdata") =>
          SetDataResult(last.in.beh.out.name, last.in.beh.out.data, Returned.e)

SetDataWitness ==
    /\ last.op = "SetData" /\ last.in.name = "E404"
    /\ last.in.data = <<"User not found">>
    /\ Returned.e = MkError(404, <<"User not found">>, EmptyStr)
    /\ catalog["E404"] = MkError(404, <<"Resource not found">>, EmptyStr)

----------------------------------------------------------------------------
(* C9: for every request served by the adapter that Register binds, the     *)
(* unread request body is drained after dispatch, on every exit path.       *)
(* ReadAll is a plain statement after f(e, d, h): when the handler panics   *)
(* it does not run.                                                         *)
DrainOnEveryExit ==
    last.op = "Serve" => Resp.unread = EmptyStr

----------------------------------------------------------------------------
\* the business handler returns, and with a code WriteHeader accepts
DispatchCompletes ==
    /\ last.in.beh.out.t # "panic"
    /\ ReturnedErr(Catalog, last.in.beh).kind = "Error" =>
          (ReturnedErr(Catalog, last.in.beh).e.Code >= 100
             /\ ReturnedErr(Catalog, last.in.beh).e.Code <= 999)

(* C10: a helper whose request cannot be built (or, for PostJSON, whose     *)
(* value cannot be marshalled) returns a non-nil error and no recorder and  *)
(* never invokes the handler; otherwise the handler is invoked exactly once *)
(* and the helper returns a recorder and a nil error.  (Stated for handlers *)
(* that return and for codes WriteHeader accepts.)  Get builds its request  *)
(* with a nil Body, and ServeHTTP's ReadAll panics on it.                   *)
HelperContract ==
    (IsHelper /\ DispatchCompletes) =>
        IF Built
        THEN Resp.invoked = 1 /\ last.returned /\ last.rec /\ ~last.err
        ELSE Resp.invoked = 0 /\ last.returned /\ ~last.rec /\ last.err

====
